---- MODULE Spec2Model ----
(***************************************************************************)
(* Model of kaniko's layered snapshot map (pkg/snapshot/layered_map.go)    *)
(* and of the multi-stage helpers ResolveStages / Dependencies             *)
(* (pkg/dockerfile).                                                       *)
(***************************************************************************)
EXTENDS Integers, Sequences, FiniteSets, TLC

VARIABLES
    layers,               \* LayeredMap.layers: sequence of maps path -> hash
    whiteouts,            \* LayeredMap.whiteouts: sequence of sets of paths
    currentImage,         \* LayeredMap.currentImage: map path -> hash
    isCurrentImageValid,  \* LayeredMap.isCurrentImageValid
    layerHashCache,       \* LayeredMap.layerHashCache: map path -> hash
    files,                \* the working root read by the hasher: path -> hash
    ret,                  \* the last LayeredMap call and what it returned
    panicked,             \* a Go runtime panic ended the process
    calls,                \* number of LayeredMap calls made so far
    snap,                 \* the full-snapshot driver's position
    script,               \* the stages as parsed from the build script
    stages,               \* the stages as ResolveStages has rewritten them
    prevStages,           \* the stages before the last ResolveStages run
    nResolved,            \* number of ResolveStages runs
    buildArgs,            \* the caller's *BuildArgs: key -> value
    dep,                  \* the Dependencies call in progress
    twin,                 \* two builds, one after the other, and their keys
    rt                    \* the GetContainerRuntime call and what it reads

lmVars == <<layers, whiteouts, currentImage, isCurrentImageValid, layerHashCache>>
vars == <<layers, whiteouts, currentImage, isCurrentImageValid, layerHashCache,
          files, ret, panicked, calls, snap,
          script, stages, prevStages, nResolved, buildArgs, dep, twin, rt>>
stageVars == <<script, stages, prevStages, nResolved, buildArgs, dep>>

(* ------------------------------ bounds -------------------------------- *)
MaxLayers == 2
MaxCalls == 7
MaxSnapshots == 3
MaxStages == 3
MaxResolves == 2
MaxLaterStages == 2
MaxCmds == 2
MaxTwinCalls == 3
MaxTwinWhiteouts == 2

Paths == {"/a", "/b"}
Hashes == {"h1", "h2"}

(* ------------------------------ Go maps ------------------------------- *)
EmptyMap == [x \in {} |-> "h1"]

MapPut(m, k, v) == [x \in (DOMAIN m) \cup {k} |-> IF x = k THEN v ELSE m[x]]

MapDelete(m, ks) == [x \in (DOMAIN m) \ ks |-> m[x]]

MapMerge(m, n) == [x \in (DOMAIN m) \cup (DOMAIN n) |-> IF x \in DOMAIN n THEN n[x] ELSE m[x]]

PartialMaps == UNION {[D -> Hashes] : D \in SUBSET Paths}

(* ------------------------------ hasher -------------------------------- *)
\* l.hasher: the layer hash of a path of the working root fs, or an error
\* when the path does not exist.
Hasher(fs, p) ==
    IF p \in DOMAIN fs THEN [ok |-> TRUE, v |-> fs[p]]
    ELSE [ok |-> FALSE, v |-> "err"]

\* Every result the hasher can give for one path.
HashResults == {Hasher(fs, p) : fs \in PartialMaps, p \in Paths}

(* ------------------------- UpdateCurrentImage ------------------------- *)
\* One iteration of the loop over the layers: every added entry overwrites,
\* then every deleted entry is removed.
ApplyLayerNoDelete(img, addedFiles, deletedFiles) == MapMerge(img, addedFiles)

ApplyLayerDeleteFirst(img, addedFiles, deletedFiles) ==
    MapMerge(MapDelete(img, deletedFiles), addedFiles)

ApplyLayer(img, addedFiles, deletedFiles) ==
    MapDelete(MapMerge(img, addedFiles), deletedFiles)

RECURSIVE FlattenFrom(_, _, _, _)
FlattenFrom(img, ls, ws, i) ==
    IF i > Len(ls) THEN img
    ELSE FlattenFrom(ApplyLayer(img, ls[i], ws[i]), ls, ws, i + 1)

\* The pair <<currentImage, isCurrentImageValid>> after UpdateCurrentImage.
UpdateCurrentImageNoRecompute(img, valid, ls, ws) == <<img, TRUE>>

UpdateCurrentImage(img, valid, ls, ws) ==
    IF valid THEN <<img, TRUE>>
    ELSE <<FlattenFrom(EmptyMap, ls, ws, 1), TRUE>>

(* ------------------------------- Key ---------------------------------- *)
\* encoding/json writes a map with its keys sorted; the digest is modelled by
\* the encoded text itself.
PathOrder == <<"/a", "/b">>

EncodeMap(m) ==
    LET ks == SelectSeq(PathOrder, LAMBDA p : p \in DOMAIN m)
    IN [j \in 1..Len(ks) |-> <<ks[j], m[ks[j]]>>]

KeyOf(ls) == [i \in 1..Len(ls) |-> EncodeMap(ls[i])]

(* ----------------------------- call records --------------------------- *)
\* op, path: the call; ok: it returned without error; val: what it returned;
\* hcalls: how often it invoked the hasher; h: the hash it computed or used;
\* follows: the hash computed by the directly preceding call when that was a
\* successful CheckFileChange of the same path, else "-"; checked: the paths
\* of the successful CheckFileChange calls made since the last Snapshot, this
\* call included; hashes: the hash that the last of them computed for each.
Call(op, p, ok, val, n, h) ==
    LET f == ret.op = "CheckFileChange" /\ ret.ok /\ ret.path = p
    IN [op |-> op, path |-> p, ok |-> ok, val |-> val, hcalls |-> n, h |-> h,
        follows |-> IF f THEN ret.h ELSE "-",
        fcalls |-> IF f THEN ret.hcalls ELSE 0,
        checked |-> IF op = "Snapshot" THEN {}
                    ELSE IF op = "CheckFileChange" /\ ok THEN ret.checked \cup {p}
                    ELSE ret.checked,
        hashes |-> IF op = "Snapshot" THEN EmptyMap
                   ELSE IF op = "CheckFileChange" /\ ok THEN MapPut(ret.hashes, p, h)
                   ELSE ret.hashes]

NoCall == [op |-> "none", path |-> "-", ok |-> TRUE, val |-> "-", hcalls |-> 0,
           h |-> "-", follows |-> "-", fcalls |-> 0, checked |-> {},
           hashes |-> EmptyMap]

\* The full-snapshot driver at rest: n snapshots taken, dirty when the working
\* root changed since the last one, clean when the snapshot in hand (or just
\* finished) began with an unchanged working root.
Idle == [pc |-> "idle", i |-> 1, prevPaths |-> {}, todo |-> {},
         wh |-> [p \in Paths |-> 0], dirty |-> FALSE, clean |-> FALSE, n |-> 0]

\* No second build in hand: the first build has made no call yet.
NoTwin == [phase |-> "first", calls |-> <<>>, pos |-> 1, key |-> <<>>,
           ls |-> <<>>, wh |-> <<>>, nw |-> 0, free |-> FALSE]

\* No GetContainerRuntime call in hand.
NoRuntimeCall == [pc |-> "idle"]

(* ------------------------------- Init --------------------------------- *)
\* NewLayeredMap: no layers, empty currentImage (not marked valid), empty
\* hash cache.
InitMap ==
    /\ layers = <<>>
    /\ whiteouts = <<>>
    /\ currentImage = EmptyMap
    /\ isCurrentImageValid = FALSE
    /\ layerHashCache = EmptyMap
    /\ ret = NoCall
    /\ panicked = FALSE

\* No build script in hand.
NoStages ==
    /\ script = <<>>
    /\ stages = <<>>
    /\ prevStages = <<>>
    /\ nResolved = 0
    /\ buildArgs = EmptyMap
    /\ dep = [pc |-> "idle", index |-> 0, s |-> 1, c |-> 1, view |-> "-",
              env |-> EmptyMap, deps |-> <<>>, out |-> <<>>, err |-> FALSE]

Init ==
    /\ InitMap
    /\ files = EmptyMap
    /\ calls = 0
    /\ snap = Idle
    /\ NoStages
    /\ twin = NoTwin
    /\ rt = NoRuntimeCall

(* --------------------------- LayeredMap API --------------------------- *)
\* One more call of a live process, within the call budget of the model.
Tick ==
    /\ ~panicked
    /\ calls < MaxCalls
    /\ calls' = calls + 1

\* The hash cache Snapshot leaves behind: a fresh map.
SnapshotHashCacheKept == layerHashCache

SnapshotHashCache == EmptyMap

SnapshotEffect ==
    LET u == UpdateCurrentImage(currentImage, isCurrentImageValid, layers, whiteouts)
    IN /\ currentImage' = u[1]
       /\ isCurrentImageValid' = u[2]
       /\ whiteouts' = Append(whiteouts, {})
       /\ layers' = Append(layers, EmptyMap)
       /\ layerHashCache' = SnapshotHashCache

Snapshot ==
    /\ Tick
    /\ Len(layers) < MaxLayers
    /\ SnapshotEffect
    /\ ret' = Call("Snapshot", "-", TRUE, "-", 0, "-")
    /\ UNCHANGED <<files, panicked, snap, stageVars, twin, rt>>

\* What Key encodes and digests: l.layers.
KeyDigestWithWhiteouts == <<KeyOf(layers), whiteouts>>

KeyDigest == KeyOf(layers)

Key ==
    /\ Tick
    /\ ret' = Call("Key", "-", TRUE, KeyDigest, 0, "-")
    /\ UNCHANGED <<lmVars, files, panicked, snap, stageVars, twin, rt>>

\* The layers in which the scan of Get finds s.
GetHitsHonoringWhiteouts(s) ==
    {i \in 1..Len(layers) : /\ s \in DOMAIN layers[i]
                            /\ \A j \in i..Len(layers) : s \notin whiteouts[j]}

GetHits(s) == {i \in 1..Len(layers) : s \in DOMAIN layers[i]}

Get(s) ==
    /\ Tick
    /\ LET hits == GetHits(s)
           top == CHOOSE i \in hits : \A j \in hits : j <= i
       IN ret' = IF hits = {} THEN Call("Get", s, FALSE, "", 0, "-")
                 ELSE Call("Get", s, TRUE, layers[top][s], 0, "-")
    /\ UNCHANGED <<lmVars, files, panicked, snap, stageVars, twin, rt>>

GetCurrentPathsEffect ==
    LET u == UpdateCurrentImage(currentImage, isCurrentImageValid, layers, whiteouts)
    IN /\ currentImage' = u[1]
       /\ isCurrentImageValid' = u[2]
       /\ UNCHANGED <<layers, whiteouts, layerHashCache>>

GetCurrentPaths ==
    /\ Tick
    /\ GetCurrentPathsEffect
    /\ ret' = Call("GetCurrentPaths", "-", TRUE, DOMAIN currentImage', 0, "-")
    /\ UNCHANGED <<files, panicked, snap, stageVars, twin, rt>>

\* l.whiteouts[len(l.whiteouts)-1] panics (index out of range) when no layer
\* was opened; the assignment to isCurrentImageValid precedes it.
AddWhiteoutValidBitKept == isCurrentImageValid

AddWhiteoutValidBit == FALSE

AddWhiteoutEffectClearsCache(s) ==
    /\ isCurrentImageValid' = AddWhiteoutValidBit
    /\ IF Len(whiteouts) = 0
       THEN /\ panicked' = TRUE
            /\ UNCHANGED whiteouts
       ELSE /\ panicked' = FALSE
            /\ whiteouts' = [whiteouts EXCEPT ![Len(whiteouts)] = @ \cup {s}]
    /\ layerHashCache' = EmptyMap
    /\ UNCHANGED <<layers, currentImage>>

AddWhiteoutEffect(s) ==
    /\ isCurrentImageValid' = AddWhiteoutValidBit
    /\ IF Len(whiteouts) = 0
       THEN /\ panicked' = TRUE
            /\ UNCHANGED whiteouts
       ELSE /\ panicked' = FALSE
            /\ whiteouts' = [whiteouts EXCEPT ![Len(whiteouts)] = @ \cup {s}]
    /\ UNCHANGED <<layers, currentImage, layerHashCache>>

AddWhiteout(s) ==
    /\ Tick
    /\ AddWhiteoutEffect(s)
    /\ ret' = Call("AddWhiteout", s, ~panicked', "-", 0, "-")
    /\ UNCHANGED <<files, snap, stageVars, twin, rt>>

\* The closure of Add: the cached hash when there is one, else the hasher,
\* whose result here is r. hcalls counts the hasher invocations.
AddHashNoCache(s, r) == [ok |-> r.ok, v |-> r.v, hcalls |-> 1]

AddHash(s, r) ==
    IF s \in DOMAIN layerHashCache
    THEN [ok |-> TRUE, v |-> layerHashCache[s], hcalls |-> 0]
    ELSE [ok |-> r.ok, v |-> r.v, hcalls |-> 1]

\* The value Add assigns to isCurrentImageValid on entry.
AddValidBitKept == isCurrentImageValid

AddValidBit == FALSE

\* The layer Add stores into: the last one.
AddIndexBelow == IF Len(layers) > 1 THEN Len(layers) - 1 ELSE Len(layers)

AddIndex == Len(layers)

\* Add storing the closure's value before it looks at the error.
AddEffectStoreFirst(s, r) ==
    LET h == AddHash(s, r)
    IN /\ isCurrentImageValid' = AddValidBit
       /\ IF Len(layers) = 0
          THEN /\ ret' = Call("Add", s, FALSE, "panic", h.hcalls, h.v)
               /\ panicked' = TRUE
               /\ UNCHANGED layers
          ELSE /\ ret' = Call("Add", s, h.ok, IF h.ok THEN "nil" ELSE "err", h.hcalls,
                               IF h.ok THEN h.v ELSE "-")
               /\ layers' = [layers EXCEPT ![AddIndex] = MapPut(@, s, h.v)]
               /\ UNCHANGED panicked
       /\ UNCHANGED <<whiteouts, currentImage, layerHashCache>>

\* l.layers[len(l.layers)-1] panics (index out of range) when no layer was
\* opened.
AddEffect(s, r) ==
    LET h == AddHash(s, r)
    IN /\ isCurrentImageValid' = AddValidBit
       /\ IF ~h.ok
          THEN /\ ret' = Call("Add", s, FALSE, "err", h.hcalls, "-")
               /\ UNCHANGED <<layers, panicked>>
          ELSE IF Len(layers) = 0
          THEN /\ ret' = Call("Add", s, FALSE, "panic", h.hcalls, h.v)
               /\ panicked' = TRUE
               /\ UNCHANGED layers
          ELSE /\ ret' = Call("Add", s, TRUE, "nil", h.hcalls, h.v)
               /\ layers' = [layers EXCEPT ![AddIndex] = MapPut(@, s, h.v)]
               /\ UNCHANGED panicked
       /\ UNCHANGED <<whiteouts, currentImage, layerHashCache>>

\* A comparison with the open layer alone instead of the flattened image.
CheckedImageTopLayer == IF Len(layers) > 0 THEN layers[Len(layers)] ELSE EmptyMap

\* The image CheckFileChange compares the new hash with.
CheckedImage == currentImage

\* The comparison of the new hash with the image: changed unless the image
\* holds s with that hash.
FileChanged(s, newV) == ~(s \in DOMAIN CheckedImage /\ newV = CheckedImage[s])

\* CheckFileChange saving the hasher's value before it looks at the error.
CheckFileChangeEffectCacheFirst(s, r) ==
    /\ layerHashCache' = MapPut(layerHashCache, s, r.v)
    /\ ret' = IF ~r.ok THEN Call("CheckFileChange", s, FALSE, FALSE, 1, "-")
              ELSE Call("CheckFileChange", s, TRUE, FileChanged(s, r.v), 1, r.v)
    /\ UNCHANGED <<layers, whiteouts, currentImage, isCurrentImageValid>>

\* r is the result of l.hasher(s).
CheckFileChangeEffect(s, r) ==
    /\ IF ~r.ok
       THEN /\ ret' = Call("CheckFileChange", s, FALSE, FALSE, 1, "-")
            /\ UNCHANGED layerHashCache
       ELSE /\ layerHashCache' = MapPut(layerHashCache, s, r.v)
            /\ ret' = Call("CheckFileChange", s, TRUE, FileChanged(s, r.v), 1, r.v)
    /\ UNCHANGED <<layers, whiteouts, currentImage, isCurrentImageValid>>

(* --------------- the API driven freely, any hasher results ------------ *)
\* The working root is not tracked here: between two calls the build may
\* change any file, so a hasher invocation may give any result.
Add(s) ==
    /\ Tick
    /\ \E r \in HashResults : AddEffect(s, r)
    /\ UNCHANGED <<files, snap, stageVars, twin, rt>>

CheckFileChange(s) ==
    /\ Tick
    /\ \E r \in HashResults : CheckFileChangeEffect(s, r)
    /\ UNCHANGED <<files, panicked, snap, stageVars, twin, rt>>

Next ==
    \/ Snapshot
    \/ Key
    \/ GetCurrentPaths
    \/ \E s \in Paths : Get(s)
    \/ \E s \in Paths : AddWhiteout(s)
    \/ \E s \in Paths : Add(s)
    \/ \E s \in Paths : CheckFileChange(s)

Spec == Init /\ [][Next]_vars

(* ----------------------- two builds, one script ----------------------- *)
\* A first build makes Snapshot and Add calls, which twin.calls records with
\* the hasher's results, and AddWhiteout calls, which it does not record, and
\* takes its key. A second build on a new LayeredMap repeats the recorded
\* calls with the same hasher results, among AddWhiteout calls of its own,
\* and takes its key.
TwinBuilding == ~panicked /\ twin.phase \in {"first", "second"}

\* The next call is free in the first build and given in the second; when
\* twin.free, the second build makes calls of its own and only the number of
\* the first build's calls is kept.
TwinMayCall(c) ==
    /\ TwinBuilding
    /\ IF twin.phase = "first" THEN Len(twin.calls) < MaxTwinCalls
       ELSE IF twin.free THEN twin.pos <= MaxTwinCalls
       ELSE twin.pos <= Len(twin.calls) /\ twin.calls[twin.pos] = c

TwinCalled(c) ==
    IF twin.phase = "first"
    THEN [twin EXCEPT !.calls = Append(@, IF twin.free THEN "call" ELSE c)]
    ELSE [twin EXCEPT !.pos = @ + 1]

TwinSnapshot ==
    LET c == [op |-> "Snapshot", path |-> "-", r |-> [ok |-> TRUE, v |-> "-"]]
    IN /\ TwinMayCall(c)
       /\ SnapshotEffect
       /\ ret' = Call("Snapshot", "-", TRUE, "-", 0, "-")
       /\ twin' = TwinCalled(c)
       /\ UNCHANGED <<files, panicked, calls, snap, stageVars, rt>>

TwinAdd(s) ==
    \E r \in HashResults :
        LET c == [op |-> "Add", path |-> s, r |-> r]
        IN /\ TwinMayCall(c)
           /\ AddEffect(s, r)
           /\ twin' = TwinCalled(c)
           /\ UNCHANGED <<files, calls, snap, stageVars, rt>>

TwinAddWhiteout(s) ==
    /\ TwinBuilding
    /\ twin.nw < MaxTwinWhiteouts
    /\ AddWhiteoutEffect(s)
    /\ ret' = Call("AddWhiteout", s, ~panicked', "-", 0, "-")
    /\ twin' = [twin EXCEPT !.nw = @ + 1]
    /\ UNCHANGED <<files, calls, snap, stageVars, rt>>

\* Key at the end of a build; the first build's key, layers and whiteouts are
\* kept.
TwinKey ==
    /\ TwinBuilding
    /\ (twin.phase = "second" /\ ~twin.free) => twin.pos > Len(twin.calls)
    /\ ret' = Call("Key", "-", TRUE, KeyDigest, 0, "-")
    /\ twin' = IF twin.phase = "first"
               THEN [twin EXCEPT !.phase = "new", !.key = KeyDigest,
                                 !.ls = layers, !.wh = whiteouts]
               ELSE [twin EXCEPT !.phase = "done"]
    /\ UNCHANGED <<lmVars, files, panicked, calls, snap, stageVars, rt>>

\* NewLayeredMap for the second build.
TwinNew ==
    /\ twin.phase = "new"
    /\ layers' = <<>>
    /\ whiteouts' = <<>>
    /\ currentImage' = EmptyMap
    /\ isCurrentImageValid' = FALSE
    /\ layerHashCache' = EmptyMap
    /\ ret' = NoCall
    /\ twin' = [twin EXCEPT !.phase = "second", !.pos = 1, !.nw = 0]
    /\ UNCHANGED <<files, panicked, calls, snap, stageVars, rt>>

NextTwin ==
    \/ TwinSnapshot
    \/ \E s \in Paths : TwinAdd(s)
    \/ \E s \in Paths : TwinAddWhiteout(s)
    \/ TwinKey
    \/ TwinNew

SpecTwin == Init /\ [][NextTwin]_vars

\* Two builds that make Snapshot, Add and AddWhiteout calls of their own.
InitPair ==
    /\ InitMap
    /\ files = EmptyMap
    /\ calls = 0
    /\ snap = Idle
    /\ NoStages
    /\ twin = [NoTwin EXCEPT !.free = TRUE]
    /\ rt = NoRuntimeCall

SpecPair == InitPair /\ [][NextTwin]_vars

(* ------------------------- full snapshots ----------------------------- *)
\* The build alternates between changing the working root and taking a full
\* snapshot: open a layer, remember the current paths, walk the root in
\* lexicographic order (check_file_change, then add when changed), then
\* whiteout every remembered path that the walk did not meet.
WriteFile(p, h) ==
    /\ snap.pc = "idle"
    /\ snap.n < MaxSnapshots
    /\ ~(p \in DOMAIN files /\ files[p] = h)
    /\ files' = MapPut(files, p, h)
    /\ snap' = [snap EXCEPT !.dirty = TRUE]
    /\ UNCHANGED <<lmVars, ret, panicked, calls, stageVars, twin, rt>>

RemoveFile(p) ==
    /\ snap.pc = "idle"
    /\ snap.n < MaxSnapshots
    /\ p \in DOMAIN files
    /\ files' = MapDelete(files, {p})
    /\ snap' = [snap EXCEPT !.dirty = TRUE]
    /\ UNCHANGED <<lmVars, ret, panicked, calls, stageVars, twin, rt>>

SnapOpen ==
    /\ snap.pc = "idle"
    /\ snap.n < MaxSnapshots
    /\ SnapshotEffect
    /\ ret' = Call("Snapshot", "-", TRUE, "-", 0, "-")
    /\ snap' = [snap EXCEPT !.pc = "paths", !.clean = (~snap.dirty /\ snap.n > 0),
                            !.dirty = FALSE, !.wh = [p \in Paths |-> 0]]
    /\ UNCHANGED <<files, panicked, calls, stageVars, twin, rt>>

SnapPaths ==
    /\ snap.pc = "paths"
    /\ GetCurrentPathsEffect
    /\ ret' = Call("GetCurrentPaths", "-", TRUE, DOMAIN currentImage', 0, "-")
    /\ snap' = [snap EXCEPT !.pc = "walk", !.i = 1, !.prevPaths = DOMAIN currentImage']
    /\ UNCHANGED <<files, panicked, calls, stageVars, twin, rt>>

\* The walk meets only the paths that exist.
SnapSkip ==
    /\ snap.pc = "walk"
    /\ snap.i <= Len(PathOrder)
    /\ PathOrder[snap.i] \notin DOMAIN files
    /\ snap' = [snap EXCEPT !.i = @ + 1]
    /\ UNCHANGED <<lmVars, files, ret, panicked, calls, stageVars, twin, rt>>

SnapCheck ==
    /\ snap.pc = "walk"
    /\ snap.i <= Len(PathOrder)
    /\ PathOrder[snap.i] \in DOMAIN files
    /\ CheckFileChangeEffect(PathOrder[snap.i], Hasher(files, PathOrder[snap.i]))
    /\ snap' = IF ret'.ok /\ ret'.val THEN [snap EXCEPT !.pc = "add"]
               ELSE [snap EXCEPT !.i = @ + 1]
    /\ UNCHANGED <<files, panicked, calls, stageVars, twin, rt>>

SnapAdd ==
    /\ snap.pc = "add"
    /\ AddEffect(PathOrder[snap.i], Hasher(files, PathOrder[snap.i]))
    /\ snap' = [snap EXCEPT !.pc = "walk", !.i = @ + 1]
    /\ UNCHANGED <<files, calls, stageVars, twin, rt>>

SnapWalked ==
    /\ snap.pc = "walk"
    /\ snap.i > Len(PathOrder)
    /\ snap' = [snap EXCEPT !.pc = "whiteout", !.todo = snap.prevPaths \ DOMAIN files]
    /\ UNCHANGED <<lmVars, files, ret, panicked, calls, stageVars, twin, rt>>

SnapWhiteout ==
    /\ snap.pc = "whiteout"
    /\ \E p \in snap.todo :
          /\ AddWhiteoutEffect(p)
          /\ ret' = Call("AddWhiteout", p, ~panicked', "-", 0, "-")
          /\ snap' = [snap EXCEPT !.todo = @ \ {p}, !.wh[p] = @ + 1]
    /\ UNCHANGED <<files, calls, stageVars, twin, rt>>

SnapFinish ==
    /\ snap.pc = "whiteout"
    /\ snap.todo = {}
    /\ snap' = [snap EXCEPT !.pc = "done"]
    /\ UNCHANGED <<lmVars, files, ret, panicked, calls, stageVars, twin, rt>>

SnapReturn ==
    /\ snap.pc = "done"
    /\ snap' = [snap EXCEPT !.pc = "idle", !.n = @ + 1]
    /\ UNCHANGED <<lmVars, files, ret, panicked, calls, stageVars, twin, rt>>

NextSnap ==
    \/ \E p \in Paths, h \in Hashes : WriteFile(p, h)
    \/ \E p \in Paths : RemoveFile(p)
    \/ SnapOpen
    \/ SnapPaths
    \/ SnapSkip
    \/ SnapCheck
    \/ SnapAdd
    \/ SnapWalked
    \/ SnapWhiteout
    \/ SnapFinish
    \/ SnapReturn

SpecSnap == Init /\ [][NextSnap]_vars

(* --------------------------- build scripts ---------------------------- *)
\* instructions.Stage{Name, BaseName, Commands}; a command is an
\* EnvCommand, an ArgCommand or a CopyCommand{From, SourcesAndDest}.
Stage(name, base, cmds) == [Name |-> name, BaseName |-> base, Commands |-> cmds]

CopyCmd(from, src) == [kind |-> "copy", From |-> from, SourcesAndDest |-> <<src, "/dst">>]

EnvCmd(key, val) == [kind |-> "env", Key |-> key, Value |-> val]

ArgCmd(key, val) == [kind |-> "arg", Key |-> key, Value |-> val]

\* strconv.Itoa on a stage index.
IndexStrings == <<"0", "1", "2", "3", "4", "5">>

Itoa(i) == IndexStrings[i + 1]

(* --------------------------- ResolveStages ---------------------------- *)
\* The map after the stage with name `name` at index i is registered.
RegisterNameOffByOne(m, name, i) ==
    IF name # Itoa(i + 1) THEN MapPut(m, name, Itoa(i + 1)) ELSE m

RegisterName(m, name, i) ==
    IF name # Itoa(i) THEN MapPut(m, name, Itoa(i)) ELSE m

\* The CopyCommand case of the inner loop.
ResolveCmdKeep(cmd, m) == cmd

ResolveCmdEmptyFrom(cmd, m) ==
    IF cmd.kind = "copy" /\ cmd.From \in DOMAIN m
    THEN [cmd EXCEPT !.From = m[cmd.From]]
    ELSE cmd

ResolveCmd(cmd, m) ==
    IF cmd.kind = "copy" /\ cmd.From # "" /\ cmd.From \in DOMAIN m
    THEN [cmd EXCEPT !.From = m[cmd.From]]
    ELSE cmd

\* The loop over the stages from the i-th (1-based) on: one pass, the name of
\* a stage entering nameToIndex just before its own commands are rewritten.
RECURSIVE ResolveLoopRenaming(_, _, _)
ResolveLoopRenaming(sts, i, nameToIndex) ==
    IF i > Len(sts) THEN sts
    ELSE LET m == RegisterName(nameToIndex, sts[i].Name, i - 1)
             cmds == [k \in DOMAIN sts[i].Commands |-> ResolveCmd(sts[i].Commands[k], m)]
         IN ResolveLoopRenaming([sts EXCEPT ![i].Commands = cmds, ![i].Name = Itoa(i - 1)],
                                i + 1, m)

RECURSIVE ResolveLoop(_, _, _)
ResolveLoop(sts, i, nameToIndex) ==
    IF i > Len(sts) THEN sts
    ELSE LET m == RegisterName(nameToIndex, sts[i].Name, i - 1)
             cmds == [k \in DOMAIN sts[i].Commands |-> ResolveCmd(sts[i].Commands[k], m)]
         IN ResolveLoop([sts EXCEPT ![i].Commands = cmds], i + 1, m)

ResolveStages(sts) == ResolveLoop(sts, 1, [x \in {} |-> "0"])

ResolveStep ==
    /\ dep.pc = "idle"
    /\ stages' = ResolveStages(stages)
    /\ prevStages' = stages
    /\ nResolved' = nResolved + 1
    /\ UNCHANGED <<lmVars, files, ret, panicked, calls, snap, twin, rt, script, buildArgs, dep>>

\* ResolveStages run on any parsed script, and run again on its own result.
Resolve ==
    /\ nResolved < MaxResolves
    /\ ResolveStep

\* Scripts whose stages are unnamed, named "a", or named like an index, and
\* whose copies read from nowhere, a name, an index or an unknown reference.
StageNames == {"", "a", "1"}

FromRefs == {"", "a", "0", "1", "x"}

ResolveBodies ==
    {<<>>, <<EnvCmd("OUT", "/out"), CopyCmd("a", "/app")>>}
        \cup {<<CopyCmd(f, "/app")>> : f \in FromRefs}

ResolveStageSet == {Stage(n, "scratch", b) : n \in StageNames, b \in ResolveBodies}

InitStages ==
    /\ InitMap
    /\ files = EmptyMap
    /\ calls = 0
    /\ snap = Idle
    /\ script \in UNION {[1..n -> ResolveStageSet] : n \in 1..MaxStages}
    /\ stages = script
    /\ prevStages = script
    /\ nResolved = 0
    /\ buildArgs = EmptyMap
    /\ dep = [pc |-> "idle", index |-> 0, s |-> 1, c |-> 1, view |-> "-",
              env |-> EmptyMap, deps |-> <<>>, out |-> <<>>, err |-> FALSE]
    /\ twin = NoTwin
    /\ rt = NoRuntimeCall

NextStages == Resolve

SpecStages == InitStages /\ [][NextStages]_vars

(* ---------------------------- Dependencies ---------------------------- *)
\* constants.NoBaseImage and constants.RootDir.
NoBaseImage == "scratch"

RootDir == "/"

\* The configured environment of the image just built (the image argument).
ImageEnv == [k \in {"OUT"} |-> "/img"]

\* The configured environment of an image loaded from an intermediate stage
\* tarball or pulled from a registry.
ExternalEnv == EmptyMap

\* The files of the working root, as RelativeFiles lists them.
RootFiles == <<"/app", "/bin/a", "/bin/b", "/img/app", "/out/app">>

\* Which image the stage's base reference selects: lines 100-126.
BaseViewNameFirst(baseName, currentName) ==
    IF baseName = currentName THEN "image"
    ELSE IF baseName = NoBaseImage THEN "empty"
    ELSE "other"

BaseView(baseName, currentName) ==
    IF baseName = NoBaseImage THEN "empty"
    ELSE IF baseName = currentName THEN "image"
    ELSE "other"

\* What looking up any other base reference can come to: an intermediate
\* stage tarball, a registry image, a failure to load or resolve either, or
\* an image whose configuration cannot be read.
OtherOutcomes == {"tarball", "remote", "unresolved", "noconfig"}

\* buildArgs.ReplacementEnvs: the environment, plus the build arguments that
\* the environment does not shadow.
ReplacementEnvs(args, env) == MapMerge(args, env)

\* Shell-word substitution of one word under the replacement environment r:
\* an unset variable expands to nothing, a malformed reference is an error.
AppUnder == ("" :> "/app") @@ ("/out" :> "/out/app") @@ ("/img" :> "/img/app")
            @@ ("/arg" :> "/arg/app") @@ ("out" :> "out/app")

Subst(w, r) ==
    IF w = "${" THEN [ok |-> FALSE, v |-> w]
    ELSE IF w = "$OUT/app"
    THEN [ok |-> TRUE, v |-> AppUnder[IF "OUT" \in DOMAIN r THEN r["OUT"] ELSE ""]]
    ELSE [ok |-> TRUE, v |-> w]

\* util.ResolveEnvironmentReplacementList over sources and destination.
ResolveEnvironmentReplacementList(words, r) ==
    [ok |-> \A k \in DOMAIN words : Subst(words[k], r).ok,
     v |-> [k \in DOMAIN words |-> Subst(words[k], r).v]]

\* util.UpdateConfigEnv for one key=value pair.
UpdateConfigEnv(key, val, env, r) ==
    [ok |-> Subst(val, r).ok, env |-> MapPut(env, key, Subst(val, r).v)]

IsWildcard(w) == w \in {"/bin/*", "bin/*"}

Match(pattern, file) ==
    \/ pattern = file
    \/ pattern = "/bin/*" /\ file \in {"/bin/a", "/bin/b"}
    \/ pattern = "bin/*" /\ file \in {"bin/a", "bin/b"}

\* A file of the root as a pattern sees it: under the root's separator for
\* an absolute pattern, relative to the root for a relative one.
FileFor(pattern, f) ==
    IF SubSeq(pattern, 1, 1) = "/" THEN f ELSE SubSeq(f, 2, Len(f))

RECURSIVE MatchOne(_, _)
MatchOne(src, fs) ==
    IF fs = <<>> THEN <<>>
    ELSE (IF Match(src, FileFor(src, Head(fs))) THEN <<FileFor(src, Head(fs))>> ELSE <<>>)
             \o MatchOne(src, Tail(fs))

RECURSIVE MatchSources(_, _)
MatchSources(srcs, fs) ==
    IF srcs = <<>> THEN <<>>
    ELSE MatchOne(Head(srcs), fs) \o MatchSources(Tail(srcs), fs)

\* util.ResolveSources: the destination is dropped; when a source holds a
\* wildcard every source is matched against the files of the root, which
\* fails when the root cannot be listed (io = FALSE).
ResolveSources(srcsAndDest, io) ==
    LET srcs == SubSeq(srcsAndDest, 1, Len(srcsAndDest) - 1)
    IN IF \E k \in DOMAIN srcs : IsWildcard(srcs[k])
       THEN [ok |-> io, v |-> MatchSources(srcs, RootFiles)]
       ELSE [ok |-> TRUE, v |-> srcs]

\* filepath.IsAbs and filepath.Join(constants.RootDir, src).
IsAbs(w) == Len(w) > 0 /\ SubSeq(w, 1, 1) = "/"

JoinRoot(w) == IF w = "" THEN RootDir ELSE RootDir \o w

\* Lines 155-159.
AbsoluteKept(srcs) == srcs

Absolute(srcs) == [k \in DOMAIN srcs |-> IF IsAbs(srcs[k]) THEN srcs[k] ELSE JoinRoot(srcs[k])]

\* What an error return hands back in place of the list: nil.
ErrorListPartial(deps) == deps

ErrorList(deps) == <<>>

\* Whether a copy reads from the stage under analysis.
CopyFromNext(from, index) == from = Itoa(index + 1)

CopyFromCurrent(from, index) == from = Itoa(index)

\* Whether the outer loop passes over the stage at stageIndex.
SkipStageBefore(stageIndex, index) == stageIndex < index

SkipStage(stageIndex, index) == stageIndex <= index

\* The replacement environment a copy's sources are resolved under.
CopyEnvNoArgs(args, env) == env

CopyEnv(args, env) == ReplacementEnvs(args, env)

Fail == [dep EXCEPT !.pc = "done", !.err = TRUE, !.out = ErrorList(dep.deps)]

\* The executor analyses stage i once the script is resolved.
DepsCall(i) ==
    /\ dep.pc = "idle"
    /\ nResolved = 1
    /\ i \in 0..(Len(stages) - 1)
    /\ dep' = [dep EXCEPT !.pc = "stage", !.index = i, !.s = 1, !.c = 1]
    /\ UNCHANGED <<lmVars, files, ret, panicked, calls, snap, twin, rt,
                   script, stages, prevStages, nResolved, buildArgs>>

\* Lines 94-130: skip the stages up to the current one; for a later stage
\* pick its source image and read its configuration.
DepsStage ==
    /\ dep.pc = "stage"
    /\ dep.s <= Len(stages)
    /\ IF SkipStage(dep.s - 1, dep.index)
       THEN dep' = [dep EXCEPT !.s = @ + 1]
       ELSE LET view == BaseView(stages[dep.s].BaseName, stages[dep.index + 1].Name)
            IN CASE view = "empty" ->
                      dep' = [dep EXCEPT !.pc = "cmd", !.c = 1, !.view = "empty",
                                         !.env = EmptyMap]
                 [] view = "image" ->
                      dep' = [dep EXCEPT !.pc = "cmd", !.c = 1, !.view = "image",
                                         !.env = ImageEnv]
                 [] view = "other" ->
                      \E o \in OtherOutcomes :
                         dep' = IF o \in {"tarball", "remote"}
                                THEN [dep EXCEPT !.pc = "cmd", !.c = 1, !.view = o,
                                                 !.env = ExternalEnv]
                                ELSE [Fail EXCEPT !.view = o]
    /\ UNCHANGED <<lmVars, files, ret, panicked, calls, snap, twin, rt,
                   script, stages, prevStages, nResolved, buildArgs>>

\* Lines 131-162: one command of the later stage in hand.
DepsCmd ==
    /\ dep.pc = "cmd"
    /\ LET cmds == stages[dep.s].Commands
           cmd == cmds[dep.c]
           r == ReplacementEnvs(buildArgs, dep.env)
       IN IF dep.c > Len(cmds)
          THEN /\ dep' = [dep EXCEPT !.pc = "stage", !.s = @ + 1]
               /\ UNCHANGED buildArgs
          ELSE CASE cmd.kind = "env" ->
                      LET u == UpdateConfigEnv(cmd.Key, cmd.Value, dep.env, r)
                      IN /\ dep' = IF u.ok THEN [dep EXCEPT !.c = @ + 1, !.env = u.env]
                                   ELSE Fail
                         /\ UNCHANGED buildArgs
                 [] cmd.kind = "arg" ->
                      /\ buildArgs' = MapPut(buildArgs, cmd.Key, cmd.Value)
                      /\ dep' = [dep EXCEPT !.c = @ + 1]
                 [] cmd.kind = "copy" ->
                      /\ UNCHANGED buildArgs
                      /\ IF ~CopyFromCurrent(cmd.From, dep.index)
                         THEN dep' = [dep EXCEPT !.c = @ + 1]
                         ELSE LET resolvedEnvs ==
                                      ResolveEnvironmentReplacementList(
                                          cmd.SourcesAndDest, CopyEnv(buildArgs, dep.env))
                              IN IF ~resolvedEnvs.ok THEN dep' = Fail
                                 ELSE \E io \in BOOLEAN :
                                        LET srcs == ResolveSources(resolvedEnvs.v, io)
                                        IN dep' = IF ~srcs.ok THEN Fail
                                                  ELSE [dep EXCEPT !.c = @ + 1,
                                                           !.deps = @ \o Absolute(srcs.v)]
    /\ UNCHANGED <<lmVars, files, ret, panicked, calls, snap, twin, rt,
                   script, stages, prevStages, nResolved>>

\* Line 164.
DepsReturn ==
    /\ dep.pc = "stage"
    /\ dep.s > Len(stages)
    /\ dep' = [dep EXCEPT !.pc = "done", !.out = dep.deps]
    /\ UNCHANGED <<lmVars, files, ret, panicked, calls, snap, twin, rt,
                   script, stages, prevStages, nResolved, buildArgs>>

\* The build resolves the parsed script once, before any stage is analysed.
ResolveOnce ==
    /\ nResolved = 0
    /\ ResolveStep

\* Scripts of a first stage named "a" followed by one or two unnamed stages
\* of at most MaxCmds commands each.
DepCmds ==
    {EnvCmd("OUT", "/out"), EnvCmd("OUT", "${"), ArgCmd("OUT", "/arg"),
     CopyCmd("a", "$OUT/app"), CopyCmd("0", "/bin/*"), CopyCmd("1", "${"),
     CopyCmd("1", "/app")}

DepBodies == UNION {[1..n -> DepCmds] : n \in 0..MaxCmds}

DepBases == {NoBaseImage, "a", "alpine"}

DepStageSet == {Stage("", b, c) : b \in DepBases, c \in DepBodies}

InitDeps ==
    /\ InitMap
    /\ files = EmptyMap
    /\ calls = 0
    /\ snap = Idle
    /\ \E later \in UNION {[1..n -> DepStageSet] : n \in 1..MaxLaterStages} :
          script = <<Stage("a", NoBaseImage, <<>>)>> \o later
    /\ stages = script
    /\ prevStages = script
    /\ nResolved = 0
    /\ buildArgs = EmptyMap
    /\ dep = [pc |-> "idle", index |-> 0, s |-> 1, c |-> 1, view |-> "-",
              env |-> EmptyMap, deps |-> <<>>, out |-> <<>>, err |-> FALSE]
    /\ twin = NoTwin
    /\ rt = NoRuntimeCall

NextDeps ==
    \/ ResolveOnce
    \/ \E i \in 0..MaxLaterStages : DepsCall(i)
    \/ DepsStage
    \/ DepsCmd
    \/ DepsReturn

SpecDeps == InitDeps /\ [][NextDeps]_vars

\* Scripts whose first stage is named "a" or bears the name of the no-base
\* sentinel, followed by one or two unnamed stages on any base whose copies
\* name absolute and relative sources, literally, by a variable or by a
\* wildcard.
BaseStageNames == {"a", NoBaseImage}

BaseBodies ==
    {<<>>, <<EnvCmd("OUT", "/out"), CopyCmd("0", "$OUT/app")>>,
     <<ArgCmd("OUT", "/arg"), CopyCmd("0", "/bin/*")>>,
     <<CopyCmd("0", "app"), CopyCmd("0", "bin/*")>>,
     <<EnvCmd("OUT", "out"), CopyCmd("0", "$OUT/app")>>}

InitBase ==
    /\ InitMap
    /\ files = EmptyMap
    /\ calls = 0
    /\ snap = Idle
    /\ \E n \in BaseStageNames :
          \E later \in UNION {[1..k -> {Stage("", b, c) : b \in DepBases, c \in BaseBodies}] :
                                k \in 1..MaxLaterStages} :
             script = <<Stage(n, NoBaseImage, <<>>)>> \o later
    /\ stages = script
    /\ prevStages = script
    /\ nResolved = 0
    /\ buildArgs = EmptyMap
    /\ dep = [pc |-> "idle", index |-> 0, s |-> 1, c |-> 1, view |-> "-",
              env |-> EmptyMap, deps |-> <<>>, out |-> <<>>, err |-> FALSE]
    /\ twin = NoTwin
    /\ rt = NoRuntimeCall

SpecBase == InitBase /\ [][NextDeps]_vars

(* ----------------------- container runtime detection ------------------ *)
\* The ContainerRuntime constants and the ContainerRuntimes list.
RuntimeDocker == "docker"
RuntimeRkt == "rkt"
RuntimeNspawn == "systemd-nspawn"
RuntimeLXC == "lxc"
RuntimeLXCLibvirt == "lxc-libvirt"
RuntimeOpenVZ == "openvz"
RuntimeKubernetes == "kube"
RuntimeGarden == "garden"
RuntimePodman == "podman"
RuntimeGVisor == "gvisor"
RuntimeFirejail == "firejail"
RuntimeWSL == "wsl"
RuntimeNotFound == "not-found"

ContainerRuntimes ==
    <<RuntimeDocker, RuntimeRkt, RuntimeNspawn, RuntimeLXC, RuntimeLXCLibvirt,
      RuntimeOpenVZ, RuntimeKubernetes, RuntimeGarden, RuntimePodman,
      RuntimeGVisor, RuntimeFirejail, RuntimeWSL>>

\* strings.Contains, strings.HasPrefix and strings.TrimSpace.
Contains(s, t) ==
    \E i \in 0..(Len(s) - Len(t)) : SubSeq(s, i + 1, i + Len(t)) = t

HasPrefix(s, t) == Len(s) >= Len(t) /\ SubSeq(s, 1, Len(t)) = t

IsSpace(ch) == ch \in {" ", "\t", "\n", "\r"}

RECURSIVE TrimLeft(_)
TrimLeft(s) ==
    IF Len(s) > 0 /\ IsSpace(SubSeq(s, 1, 1))
    THEN TrimLeft(SubSeq(s, 2, Len(s))) ELSE s

RECURSIVE TrimRight(_)
TrimRight(s) ==
    IF Len(s) > 0 /\ IsSpace(SubSeq(s, Len(s), Len(s)))
    THEN TrimRight(SubSeq(s, 1, Len(s) - 1)) ELSE s

TrimSpace(s) == TrimRight(TrimLeft(s))

\* The first runtime of the list, from the k-th on, that input contains.
RECURSIVE ScanRuntimes(_, _)
ScanRuntimes(input, k) ==
    IF k > Len(ContainerRuntimes) THEN RuntimeNotFound
    ELSE IF Contains(input, ContainerRuntimes[k]) THEN ContainerRuntimes[k]
    ELSE ScanRuntimes(input, k + 1)

getContainerRuntime(input) ==
    IF Len(TrimSpace(input)) < 1 THEN RuntimeNotFound
    ELSE ScanRuntimes(input, 1)

\* A file of the file system fs is absent, a readable file with its data, or
\* there although it cannot be read (os.Stat fails otherwise than with
\* not-exist, or ioutil.ReadFile fails).
AbsentFile == [st |-> "absent", data |-> ""]

File(data) == [st |-> "file", data |-> data]

NoAccessFile == [st |-> "noaccess", data |-> ""]

osFileExists(fs, file) == fs[file].st # "absent"

readFileString(fs, file) ==
    IF ~osFileExists(fs, file) \/ fs[file].st = "noaccess" THEN ""
    ELSE TrimSpace(fs[file].data)

\* fmt.Sprintf of the cgroup file to read.
CgroupFile(tgid, pid) ==
    IF pid > 0
    THEN IF tgid > 0
         THEN "/proc/" \o ToString(tgid) \o "/task/" \o ToString(pid) \o "/cgroup"
         ELSE "/proc/" \o ToString(pid) \o "/cgroup"
    ELSE "/proc/self/cgroup"

\* The final return of GetContainerRuntime.
NoRuntimeDetectedEmpty == ""

NoRuntimeDetected == RuntimeNotFound

\* env is the value of the environment variable "container".
GetContainerRuntime(tgid, pid, fs, env) ==
    LET cg == getContainerRuntime(readFileString(fs, CgroupFile(tgid, pid)))
        cmd == getContainerRuntime(readFileString(fs, "/proc/1/cmdline"))
        ev == getContainerRuntime(env)
        run == getContainerRuntime(readFileString(fs, "/run/systemd/container"))
    IN IF cg # RuntimeNotFound THEN cg
       ELSE IF osFileExists(fs, "/proc/vz") /\ ~osFileExists(fs, "/proc/bc")
       THEN RuntimeOpenVZ
       ELSE IF osFileExists(fs, "/__runsc_containers__") THEN RuntimeGVisor
       ELSE IF cmd # RuntimeNotFound THEN cmd
       ELSE IF HasPrefix(readFileString(fs, "/proc/version_signature"), "Microsoft")
       THEN RuntimeWSL
       ELSE IF ev # RuntimeNotFound THEN ev
       ELSE IF run # RuntimeNotFound THEN run
       ELSE NoRuntimeDetected

\* One call of GetContainerRuntime on the inputs in rt.
RuntimeCall ==
    /\ rt.pc = "call"
    /\ rt' = [rt EXCEPT !.pc = "done",
                        !.result = GetContainerRuntime(rt.tgid, rt.pid, rt.fs, rt.env)]
    /\ UNCHANGED <<lmVars, files, ret, panicked, calls, snap, stageVars, twin>>

\* The detection inputs: which process is asked about, the cgroup files, the
\* well-known paths, PID 1's command line, the kernel version signature, the
\* container variable and /run/systemd/container.
Pids == {0, 1}

CgroupContents ==
    {AbsentFile, File(""), File("12:pids:/docker/0a1b\n"),
     File("1:name=systemd:/kubepods/pod7\n")}

OtherCgroupContents == {AbsentFile, File("4:cpu:/lxc/box")}

Presence == {AbsentFile, File("")}

CmdlineContents == {AbsentFile, File("firejail"), NoAccessFile}

VersionContents == {AbsentFile, File("Microsoft 4.4.0-17134\n"), File("Ubuntu 5.4.0")}

ContainerEnvs == {"", " ", "podman"}

RunContainerContents == {AbsentFile, File("systemd-nspawn\n"), File("lxc-libvirt")}

RuntimeFileSystems ==
    {[f \in {"/proc/self/cgroup", "/proc/1/cgroup", "/proc/1/task/1/cgroup",
             "/proc/vz", "/proc/bc", "/__runsc_containers__", "/proc/1/cmdline",
             "/proc/version_signature", "/run/systemd/container"} |->
        CASE f = "/proc/self/cgroup" -> a
          [] f = "/proc/1/cgroup" -> b
          [] f = "/proc/1/task/1/cgroup" -> c
          [] f = "/proc/vz" -> vz
          [] f = "/proc/bc" -> bc
          [] f = "/__runsc_containers__" -> runsc
          [] f = "/proc/1/cmdline" -> cmd
          [] f = "/proc/version_signature" -> ver
          [] OTHER -> run] :
        a \in CgroupContents, b \in OtherCgroupContents, c \in OtherCgroupContents,
        vz \in Presence, bc \in Presence, runsc \in Presence,
        cmd \in CmdlineContents, ver \in VersionContents,
        run \in RunContainerContents}

InitRuntime ==
    /\ InitMap
    /\ files = EmptyMap
    /\ calls = 0
    /\ snap = Idle
    /\ NoStages
    /\ twin = NoTwin
    /\ rt \in [pc : {"call"}, tgid : Pids, pid : Pids, fs : RuntimeFileSystems,
                env : ContainerEnvs, result : {"-"}]

NextRuntime == RuntimeCall

SpecRuntime == InitRuntime /\ [][NextRuntime]_vars

\* One call of getContainerRuntime on the input in rt.
ScanCall ==
    /\ rt.pc = "scan"
    /\ rt' = [rt EXCEPT !.pc = "scanned", !.result = getContainerRuntime(rt.input)]
    /\ UNCHANGED <<lmVars, files, ret, panicked, calls, snap, stageVars, twin>>

\* The inputs of the scan: a runtime's name, or none, between what a cgroup
\* line, a command line or white space puts before and after it.
ScanTags == {ContainerRuntimes[k] : k \in DOMAIN ContainerRuntimes} \cup {""}

ScanPrefixes == {"", " ", "/", "12:pids:/", "1:name=systemd:/"}

ScanSuffixes == {"", "\n", " \t", "/0a1b", "pods/pod7"}

InitScan ==
    /\ InitMap
    /\ files = EmptyMap
    /\ calls = 0
    /\ snap = Idle
    /\ NoStages
    /\ twin = NoTwin
    /\ \E t \in ScanTags, pre \in ScanPrefixes, suf \in ScanSuffixes :
          rt = [pc |-> "scan", tag |-> t, input |-> pre \o t \o suf, result |-> "-"]

NextScan == ScanCall

SpecScan == InitScan /\ [][NextScan]_vars

(* ===================== properties of the LayeredMap =================== *)
\* The paths left after applying the first n layers, in order, to the empty
\* set: each layer inserts its added paths, then removes its deleted paths.
RECURSIVE RefPaths(_)
RefPaths(n) ==
    IF n = 0 THEN {}
    ELSE (RefPaths(n - 1) \cup DOMAIN layers[n]) \ whiteouts[n]

\* The hash the flattening of the first n layers gives path p ("-" when p is
\* absent): the most recent layer that mentions p wins.
RECURSIVE RefHash(_, _)
RefHash(p, n) ==
    IF n = 0 THEN "-"
    ELSE IF p \in whiteouts[n] THEN "-"
    ELSE IF p \in DOMAIN layers[n] THEN layers[n][p]
    ELSE RefHash(p, n - 1)

\* What GetCurrentPaths() would return in the current state.
GetCurrentPathsResult ==
    DOMAIN UpdateCurrentImage(currentImage, isCurrentImageValid, layers, whiteouts)[1]

\* C1: flattening correctness. Whatever calls came before, GetCurrentPaths()
\* returns exactly the set obtained from the empty set by processing the
\* layers from the first upward, inserting each layer's added paths and
\* removing its deleted paths.
C1_FlatteningCorrect ==
    ret.op = "GetCurrentPaths" => ret.val = RefPaths(Len(layers))

\* GetCurrentPaths has returned {"/b"} for a stack whose first layer added
\* "/a" and whose second layer deleted it.
C1_Witness ==
    /\ ret.op = "GetCurrentPaths"
    /\ Len(layers) = 2
    /\ "/a" \in DOMAIN layers[1]
    /\ "/a" \in whiteouts[2]
    /\ ret.val = {"/b"}

\* C2: a successful CheckFileChange(p) that hashed p to h returns true if and
\* only if the flattening of the whole stack at the moment of the call (the
\* top layer's Adds and AddWhiteouts included) does not map p to h.
C2_ChangeIffFlattenedDiffers ==
    (ret.op = "CheckFileChange" /\ ret.ok) =>
        (ret.val <=> (RefHash(ret.path, Len(layers)) # ret.h))

\* C10: hash cache hit. When Add(p) directly follows a successful
\* CheckFileChange(p), the hasher ran exactly once over the two calls (in
\* CheckFileChange), and the hash Add stored for p in the top layer is the one
\* CheckFileChange computed.
C10_HashCacheHit ==
    (ret.op = "Add" /\ ret.follows # "-") =>
        /\ ret.fcalls + ret.hcalls = 1
        /\ ret.hcalls = 0
        /\ ret.ok => layers[Len(layers)][ret.path] = ret.follows

\* Add(p) has stored a hash right after CheckFileChange(p) computed it.
C10_Witness ==
    /\ ret.op = "Add"
    /\ ret.ok
    /\ ret.follows \in Hashes
    /\ layers[Len(layers)][ret.path] = ret.follows

(* ======================= properties of full snapshots ================= *)
\* C3: snapshot minimality. A full snapshot that began with the working root
\* unchanged since the previous full snapshot adds no path and no whiteout:
\* its layer stays empty from the moment it is opened.
C3_SnapshotMinimal ==
    snap.clean =>
        /\ layers[Len(layers)] = EmptyMap
        /\ whiteouts[Len(whiteouts)] = {}

\* A clean full snapshot has finished right after one that recorded a
\* whiteout, with a file still on disk.
C3_Witness ==
    /\ snap.clean
    /\ snap.pc = "done"
    /\ Len(layers) = 3
    /\ whiteouts[2] # {}
    /\ DOMAIN files # {}

\* C4: whiteout generation. When a full snapshot has finished, every path of
\* the flattened image as it stood before the snapshot that is absent on disk
\* got exactly one whiteout, is in the top layer's deleted set and is no
\* longer among the current paths; a path that was not in the prior flattened
\* image got no whiteout.
C4_WhiteoutGeneration ==
    snap.pc = "done" =>
        \A p \in Paths :
            /\ (p \in RefPaths(Len(layers) - 1) /\ p \notin DOMAIN files) =>
                  /\ snap.wh[p] = 1
                  /\ p \in whiteouts[Len(whiteouts)]
                  /\ p \notin GetCurrentPathsResult
            /\ p \notin RefPaths(Len(layers) - 1) =>
                  /\ snap.wh[p] = 0
                  /\ p \notin whiteouts[Len(whiteouts)]

\* A third snapshot has finished with "/a" whited out by the second layer and
\* still absent (no second whiteout), while "/b", in the image and gone from
\* disk, got its whiteout.
C4_Witness ==
    /\ snap.pc = "done"
    /\ Len(layers) = 3
    /\ "/a" \in whiteouts[2]
    /\ "/a" \notin DOMAIN files
    /\ snap.wh["/a"] = 0
    /\ "/b" \in RefPaths(2)
    /\ snap.wh["/b"] = 1
    /\ "/b" \in whiteouts[3]

(* ===================== properties of ResolveStages ==================== *)
\* The copies of the script: <<stage, command>> positions (1-based).
Copies(sts) ==
    {jc \in (1..Len(sts)) \X (1..2) :
        /\ jc[2] <= Len(sts[jc[1]].Commands)
        /\ sts[jc[1]].Commands[jc[2]].kind = "copy"}

FromOf(sts, jc) == sts[jc[1]].Commands[jc[2]].From

\* The stages (1-based) that bear f as a symbolic name: a name that is not
\* empty and not the stage's own index string.
Bearers(f) ==
    {k \in 1..Len(script) : f # "" /\ script[k].Name = f /\ f # Itoa(k - 1)}

\* C8 as claimed: after ResolveStages, a copy whose from field was the
\* symbolic name of a stage of the script (the only stage of that name) has
\* that stage's index string as its from field, wherever that stage is
\* declared: before the copy's stage, the same stage, or after it.
C8_ResolvedWherever ==
    nResolved = 1 =>
        \A jc \in Copies(script) : \A k \in Bearers(FromOf(script, jc)) :
            Bearers(FromOf(script, jc)) = {k} => FromOf(stages, jc) = Itoa(k - 1)

\* C8 as the code has it: after ResolveStages, a copy whose from field was
\* the symbolic name of a stage declared at or before the copy's own stage has
\* the index string of the last such stage as its from field; a from field
\* that names only stages declared later is left as it was.
C8_ResolvedBackward ==
    nResolved = 1 =>
        \A jc \in Copies(script) :
            LET f == FromOf(script, jc)
                K == {k \in Bearers(f) : k <= jc[1]}
            IN IF K = {} THEN FromOf(stages, jc) = f
               ELSE \E k \in K : /\ \A m \in K : m <= k
                                  /\ FromOf(stages, jc) = Itoa(k - 1)

\* One run has rewritten a copy of the second stage from the first stage's
\* name to "0" and a copy of the stage named "a" itself to its own index,
\* and has left a copy that names a later stage alone.
C8_Witness ==
    /\ nResolved = 1
    /\ Len(script) = 3
    /\ script[1].Name = "a" /\ script[2].Name = "" /\ script[3].Name = "1"
    /\ script[1].Commands = <<CopyCmd("1", "/app")>>
    /\ stages[1].Commands = <<CopyCmd("1", "/app")>>
    /\ script[2].Commands = <<CopyCmd("a", "/app")>>
    /\ stages[2].Commands = <<CopyCmd("0", "/app")>>
    /\ script[3].Commands = <<CopyCmd("1", "/app")>>
    /\ stages[3].Commands = <<CopyCmd("2", "/app")>>

NoForeignIndexNames ==
    \A k, m \in 1..Len(script) : m # k => script[k].Name # Itoa(m - 1)

SameButFrom(c, d) ==
    /\ d.kind = c.kind
    /\ IF c.kind = "copy" THEN d.SourcesAndDest = c.SourcesAndDest ELSE d = c

\* C33: ResolveStages changes nothing but from fields of copies. After a
\* run, the stages are as many as before and in the same order, each with
\* the name and the base reference it had and with as many commands, of the
\* same kinds in the same order, the sources and the destination of every
\* copy as they were.
C33_OnlyFromRewritten ==
    nResolved >= 1 =>
        /\ Len(stages) = Len(prevStages)
        /\ \A i \in 1..Len(prevStages) :
              /\ stages[i].Name = prevStages[i].Name
              /\ stages[i].BaseName = prevStages[i].BaseName
              /\ Len(stages[i].Commands) = Len(prevStages[i].Commands)
              /\ \A k \in 1..Len(prevStages[i].Commands) :
                    SameButFrom(prevStages[i].Commands[k], stages[i].Commands[k])

\* A run on three stages, the second named "a", has rewritten the copy that
\* follows an EnvAssign in the third and nothing else.
C33_Witness ==
    /\ nResolved = 1
    /\ Len(script) = 3
    /\ script[1].Name = "" /\ script[2].Name = "a" /\ script[3].Name = "1"
    /\ script[3].Commands = <<EnvCmd("OUT", "/out"), CopyCmd("a", "/app")>>
    /\ stages[3].Commands = <<EnvCmd("OUT", "/out"), CopyCmd("1", "/app")>>
    /\ stages[1].Commands = script[1].Commands
    /\ stages[2].Commands = script[2].Commands

(* ===================== properties of Dependencies ===================== *)
Range(f) == {f[k] : k \in DOMAIN f}

\* The commands that the replay reaches before command c of stage j (1-based)
\* when stage i (0-based) is analysed, as <<stage, command>> positions: all
\* commands of the later stages before j, then the commands before c in j.
ReplayedBefore(i, j, c) ==
    {kc \in ((i + 2)..j) \X (1..MaxCmds + 1) :
        /\ kc[2] <= Len(script[kc[1]].Commands)
        /\ kc[1] = j => kc[2] < c}

Later(kc, ld) == kc[1] > ld[1] \/ (kc[1] = ld[1] /\ kc[2] > ld[2])

\* The value the kind-k commands among the positions P give variable v: that
\* of the last one that sets v, else seed[v]; "" when v stays unset.
LastSet(P, k, v, seed) ==
    LET S == {kc \in P : /\ script[kc[1]].Commands[kc[2]].kind = k
                          /\ script[kc[1]].Commands[kc[2]].Key = v}
    IN IF S = {} THEN (IF v \in DOMAIN seed THEN seed[v] ELSE "")
       ELSE LET last == CHOOSE kc \in S : \A ld \in S : ~Later(ld, kc)
            IN script[last[1]].Commands[last[2]].Value

\* The environment of the base image of stage j.
SeedEnv(i, j) ==
    IF script[j].BaseName = NoBaseImage THEN EmptyMap
    ELSE IF script[j].BaseName = script[i + 1].Name THEN ImageEnv
    ELSE ExternalEnv

\* The value of OUT in force at command c of stage j: the environment of the
\* stage (its base image's, then its own EnvAssigns so far) shadows the build
\* arguments registered so far.
OutAt(i, j, c) ==
    LET e == LastSet({kc \in ReplayedBefore(i, j, c) : kc[1] = j}, "env", "OUT",
                     SeedEnv(i, j))
    IN IF e # "" THEN e
       ELSE LastSet(ReplayedBefore(i, j, c), "arg", "OUT", EmptyMap)

\* The paths that the copy at command c of stage j names once OUT is
\* substituted and wildcards are expanded against the working root.
NamedPaths(i, j, c) ==
    LET w == script[j].Commands[c].SourcesAndDest[1]
        x == IF w = "$OUT/app" THEN AppUnder[OutAt(i, j, c)] ELSE w
    IN IF IsWildcard(x) THEN {f \in Range(RootFiles) : Match(x, f)} ELSE {x}

\* The copy at command c of later stage j reads from stage i: its from field
\* is i's index string, or i's symbolic name where no stage up to j other
\* than i bears that name.
ReadsFrom(i, j, c) ==
    LET cmd == script[j].Commands[c]
    IN /\ cmd.kind = "copy"
       /\ \/ cmd.From = Itoa(i)
          \/ /\ cmd.From # ""
             /\ {k \in Bearers(cmd.From) : k <= j} = {i + 1}

C6_NoPartialList ==
    (dep.pc = "done" /\ dep.err) => dep.out = <<>>

\* The analysis has failed in the second later stage after collecting paths
\* from the first.
C6_Witness ==
    /\ dep.pc = "done" /\ dep.err
    /\ dep.s = 3
    /\ dep.deps # <<>>
    /\ dep.out = <<>>

\* C7: the returned list holds no path more than once.
C7_Deduplicated ==
    dep.pc = "done" =>
        \A a, b \in DOMAIN dep.out : a # b => dep.out[a] # dep.out[b]

(* ------------------------ LayeredMap, continued ----------------------- *)
\* C11: right after Snapshot the hash cache is empty, and an Add of a path
\* that no successful CheckFileChange has checked since the last Snapshot
\* invokes the hasher once and stores the hash the hasher gave then.
C11_NewLayerCacheReset ==
    /\ (ret.op = "Snapshot" => layerHashCache = EmptyMap)
    /\ (ret.op = "Add" /\ Len(layers) > 0 /\ ret.path \notin ret.checked
          => /\ ret.hcalls = 1
             /\ (ret.ok => layers[Len(layers)][ret.path] = ret.h))

\* An Add in the second layer, not checked in that layer, of a path the first
\* layer holds with another hash.
C11_Witness ==
    /\ ret.op = "Add" /\ ret.ok /\ ret.hcalls = 1
    /\ ret.path \notin ret.checked
    /\ Len(layers) = 2
    /\ ret.path \in DOMAIN layers[1]
    /\ layers[1][ret.path] # layers[2][ret.path]

\* Get as the code scans: from the n-th layer downward, the first layer whose
\* added set holds p gives the hash; "-" when none does.
RECURSIVE RefGet(_, _)
RefGet(p, n) ==
    IF n = 0 THEN "-"
    ELSE IF p \in DOMAIN layers[n] THEN layers[n][p]
    ELSE RefGet(p, n - 1)

\* C13: Get(p) returns the hash of p in the highest layer whose added set
\* holds p and reports not-found exactly when no layer's added set holds p,
\* whatever the whiteouts are.
C13_GetTopDown ==
    ret.op = "Get" =>
        /\ ret.ok <=> (\E i \in 1..Len(layers) : ret.path \in DOMAIN layers[i])
        /\ ret.ok => ret.val = RefGet(ret.path, Len(layers))
        /\ ~ret.ok => ret.val = ""

\* Get has returned the hash of a path that the first layer added and the
\* second layer whited out, so that the flattened image does not hold it.
C13_Witness ==
    /\ ret.op = "Get" /\ ret.ok
    /\ Len(layers) = 2
    /\ ret.path \in DOMAIN layers[1]
    /\ ret.path \notin DOMAIN layers[2]
    /\ ret.path \in whiteouts[2]
    /\ ret.val = layers[1][ret.path]
    /\ ret.path \notin RefPaths(2)

\* C14: Add on a map on which Snapshot was never called returns an error,
\* does not end the process, and leaves the stack empty.
C14_MisuseReportedAsError ==
    (ret.op = "Add" /\ Len(layers) = 0) =>
        /\ ~ret.ok
        /\ ~panicked
        /\ layers = <<>>

\* C15: a successful CheckFileChange of a path that the flattening of the
\* whole stack does not hold at the moment of the call returns true.
C15_AbsentIsChanged ==
    (ret.op = "CheckFileChange" /\ ret.ok /\ ret.path \notin RefPaths(Len(layers)))
        => ret.val

\* The flattening of the whole stack as a map from path to hash.
RefImage ==
    [p \in RefPaths(Len(layers)) |-> RefHash(p, Len(layers))]

\* C18 as claimed: right after Snapshot the validity bit is false.
C18_SnapshotInvalidates ==
    ret.op = "Snapshot" => ~isCurrentImageValid

\* C18 amended: right after Snapshot the validity bit is true and the cached
\* image is the flattening of the stack, the new empty layer included.
C18_SnapshotLeavesValid ==
    ret.op = "Snapshot" =>
        /\ isCurrentImageValid
        /\ currentImage = RefImage

\* Snapshot has returned over a first layer that holds an added path and a
\* whiteout, with a non-empty cached image.
C18_Witness ==
    /\ ret.op = "Snapshot"
    /\ Len(layers) = 2
    /\ layers[1] # EmptyMap
    /\ whiteouts[1] # {}
    /\ currentImage # EmptyMap

\* A step of the call op.
Did(op) == calls' # calls /\ ret'.op = op

\* C19: Snapshot appends exactly one layer with empty added and deleted
\* sets; no other call changes the number of layers; no call changes the
\* added or deleted set of a layer below the topmost one, nor does Snapshot
\* change any layer that exists.
C19_OnlySnapshotGrows ==
    [][/\ Did("Snapshot") =>
            /\ Len(layers') = Len(layers) + 1
            /\ Len(whiteouts') = Len(whiteouts) + 1
            /\ layers'[Len(layers')] = EmptyMap
            /\ whiteouts'[Len(whiteouts')] = {}
            /\ \A i \in 1..Len(layers) :
                  layers'[i] = layers[i] /\ whiteouts'[i] = whiteouts[i]
       /\ ~Did("Snapshot") =>
            /\ Len(layers') = Len(layers)
            /\ Len(whiteouts') = Len(whiteouts)
            /\ \A i \in 1..(Len(layers) - 1) :
                  layers'[i] = layers[i] /\ whiteouts'[i] = whiteouts[i]
      ]_vars

\* Add and AddWhiteout have changed the second layer above a first layer
\* that holds a path and a whiteout.
C19_Witness ==
    /\ ret.op \in {"Add", "AddWhiteout"} /\ ret.ok
    /\ Len(layers) = 2
    /\ layers[1] # EmptyMap /\ whiteouts[1] # {}
    /\ layers[2] # EmptyMap /\ whiteouts[2] # {}

\* C20: whenever the validity bit is true the cached image is the flattening
\* of the stack, and the bit is false right after every Add (stored, failed
\* or crashed) and every AddWhiteout.
C20_CacheCoherent ==
    /\ isCurrentImageValid => currentImage = RefImage
    /\ ret.op \in {"Add", "AddWhiteout"} => ~isCurrentImageValid

\* The cache is valid and non-empty over a stack whose second layer holds a
\* whiteout, after a GetCurrentPaths call recomputed it.
C20_Witness ==
    /\ ret.op = "GetCurrentPaths"
    /\ isCurrentImageValid
    /\ Len(layers) = 2
    /\ whiteouts[2] # {}
    /\ currentImage # EmptyMap

\* C12: a build that repeats the Snapshot and Add calls of another build
\* (same paths, same hashes, same layers) among AddWhiteout calls of its own
\* returns the same Key() value as that build.
C12_KeyStable ==
    twin.phase = "done" => ret.val = twin.key

\* Both builds have returned a key for two layers with an added path, and
\* their whiteouts differ.
C12_Witness ==
    /\ twin.phase = "done"
    /\ Len(layers) = 2
    /\ layers[1] # EmptyMap
    /\ whiteouts # twin.wh
    /\ whiteouts[2] # {}
    /\ \E p \in Paths : p \in twin.wh[1]

(* ===================== ResolveStages, continued ======================= *)
\* C17: a copy whose from field is empty, or is not the symbolic name of any
\* stage of the script, has the same from field after ResolveStages.
C17_UnknownUntouched ==
    nResolved = 1 =>
        \A jc \in Copies(script) :
            LET f == FromOf(script, jc)
            IN (f = "" \/ Bearers(f) = {}) => FromOf(stages, jc) = f

\* One run has left alone an empty from field in a stage after an unnamed
\* stage and an unknown reference, and has rewritten another from field.
C17_Witness ==
    /\ nResolved = 1
    /\ script[1].Name = ""
    /\ \E jc \in Copies(script) : jc[1] > 1 /\ FromOf(script, jc) = ""
    /\ \E jc \in Copies(script) : FromOf(script, jc) = "x"
    /\ stages # script

\* C21: a Get, GetCurrentPaths or Key call changes the result of no later
\* call: what Get, GetCurrentPaths, Key and CheckFileChange (for any path and
\* any hash of it) would return is the same right after the call as right
\* before it.
C21_ReadsPure ==
    [][(Did("Get") \/ Did("GetCurrentPaths") \/ Did("Key")) =>
          /\ GetCurrentPathsResult' = GetCurrentPathsResult
          /\ KeyDigest' = KeyDigest
          /\ \A p \in Paths : GetHits(p)' = GetHits(p)
          /\ \A p \in Paths : \A h \in Hashes : FileChanged(p, h)' = FileChanged(p, h)
      ]_vars

\* C22: an Add of a path without hash cache entry for which the hasher
\* fails returns an error and leaves every layer's added and deleted set, the
\* hash cache, and what GetCurrentPaths and Key would return as they were.
C22_FailedAddChangesNothing ==
    [][\A s \in Paths : \A r \in HashResults :
          (Tick /\ AddEffect(s, r) /\ ~r.ok /\ s \notin DOMAIN layerHashCache) =>
              /\ ret'.op = "Add" /\ ~ret'.ok /\ ret'.val = "err"
              /\ ~panicked'
              /\ layers' = layers
              /\ whiteouts' = whiteouts
              /\ layerHashCache' = layerHashCache
              /\ GetCurrentPathsResult' = GetCurrentPathsResult
              /\ KeyDigest' = KeyDigest
      ]_vars

\* An Add has failed in a layer that holds an earlier Add and a whiteout.
C22_Witness ==
    /\ ret.op = "Add" /\ ret.val = "err"
    /\ Len(layers) = 2
    /\ layers[2] # EmptyMap
    /\ whiteouts[2] # {}
    /\ ret.path \notin DOMAIN layers[2]

\* C23: a CheckFileChange for which the hasher fails returns an error and
\* leaves the hash cache as it was; one for which the hasher succeeds sets
\* the hash cache entry of its path and no other; neither changes a layer, a
\* whiteout set, the cached image or its validity bit.
C23_CheckFileChangeFrame ==
    [][\A s \in Paths : \A r \in HashResults :
          (Tick /\ CheckFileChangeEffect(s, r)) =>
              /\ ret'.op = "CheckFileChange" /\ ret'.ok = r.ok
              /\ layers' = layers
              /\ whiteouts' = whiteouts
              /\ currentImage' = currentImage
              /\ isCurrentImageValid' = isCurrentImageValid
              /\ ~panicked'
              /\ IF r.ok THEN layerHashCache' = MapPut(layerHashCache, s, r.v)
                 ELSE layerHashCache' = layerHashCache
      ]_vars

\* A CheckFileChange has failed for a path whose hash was cached before.
C23_Witness ==
    /\ ret.op = "CheckFileChange" /\ ~ret.ok
    /\ ret.path \in DOMAIN layerHashCache
    /\ Len(layers) > 0
    /\ layers[Len(layers)] # EmptyMap
    /\ currentImage # EmptyMap

\* C24: Add never changes the hash cache; the hash it stores for p is the
\* one the last successful CheckFileChange(p) since the last Snapshot
\* computed, without invoking the hasher, whatever calls came in between;
\* when there was none it invokes the hasher once and stores its value.
C24_AddUsesLastCheck ==
    [][\A s \in Paths : \A r \in HashResults :
          (Tick /\ AddEffect(s, r)) =>
              /\ layerHashCache' = layerHashCache
              /\ IF s \in DOMAIN ret.hashes
                 THEN /\ ret'.hcalls = 0
                      /\ Len(layers) > 0 => layers'[Len(layers)][s] = ret.hashes[s]
                 ELSE /\ ret'.hcalls = 1
                      /\ (Len(layers) > 0 /\ r.ok) => layers'[Len(layers)][s] = r.v
      ]_vars

\* Add has stored the hash of a CheckFileChange that was not the call right
\* before it, over a different hash in the layer below.
C24_Witness ==
    /\ ret.op = "Add" /\ ret.ok /\ ret.hcalls = 0
    /\ ret.follows = "-"
    /\ ret.path \in DOMAIN ret.hashes
    /\ Len(layers) = 2
    /\ layers[2][ret.path] = ret.hashes[ret.path]
    /\ ret.path \in DOMAIN layers[1]
    /\ layers[1][ret.path] # layers[2][ret.path]

\* C26: a path that one layer holds both as added and as deleted, and that
\* no higher layer adds, is absent from what GetCurrentPaths returns, while
\* Get returns its hash.
C26_DeletionWins ==
    LET Both(p) == {i \in 1..Len(layers) : p \in DOMAIN layers[i] /\ p \in whiteouts[i]}
        Dead(p) == \E i \in Both(p) : \A j \in (i + 1)..Len(layers) : p \notin DOMAIN layers[j]
    IN /\ ret.op = "GetCurrentPaths" => \A p \in Paths : Dead(p) => p \notin ret.val
       /\ (ret.op = "Get" /\ Both(ret.path) # {}) =>
              ret.ok /\ ret.val = RefGet(ret.path, Len(layers))

\* GetCurrentPaths has left out a path that the only layer holds as added
\* and as deleted, and has returned the other path.
C26_Witness ==
    /\ ret.op = "GetCurrentPaths"
    /\ Len(layers) = 1
    /\ "/a" \in DOMAIN layers[1] /\ "/a" \in whiteouts[1]
    /\ ret.val = {"/b"}

\* The added entries of all layers as a set of <<path, hash>> pairs.
AddedPairs(ls) ==
    UNION {{<<p, ls[i][p]>> : p \in DOMAIN ls[i]} : i \in 1..Len(ls)}

\* C27 as claimed: two builds whose added entries, taken over all layers,
\* are the same set of (path, hash) pairs return the same Key().
C27_KeyOfPairsOnly ==
    (twin.phase = "done" /\ AddedPairs(layers) = AddedPairs(twin.ls)) =>
        ret.val = twin.key

\* C27 amended: two builds whose layers hold, position by position, the same
\* added entries return the same Key(), whatever their whiteouts and the
\* order of their Add calls.
C27_KeyOfLayers ==
    (twin.phase = "done" /\ layers = twin.ls) => ret.val = twin.key

\* Both builds have returned a key for the same layers, one of which holds
\* both paths, with different whiteouts.
C27_Witness ==
    /\ twin.phase = "done"
    /\ layers = twin.ls
    /\ whiteouts # twin.wh
    /\ \E i \in 1..Len(layers) : DOMAIN layers[i] = Paths

(* ====================== full snapshots, continued ===================== *)
\* C25: when only full snapshots drive the map, no layer holds a path both
\* as added and as deleted.
C25_AddedDeletedDisjoint ==
    \A i \in 1..Len(layers) : DOMAIN layers[i] \cap whiteouts[i] = {}

\* A full snapshot has finished whose layer adds one path and deletes the
\* other, above a layer that added the deleted path.
C25_Witness ==
    /\ snap.pc = "done"
    /\ Len(layers) >= 2
    /\ layers[Len(layers)] # EmptyMap
    /\ whiteouts[Len(layers)] # {}
    /\ \E p \in whiteouts[Len(layers)] : p \in DOMAIN layers[1]

(* ====================== Dependencies, continued ======================= *)
\* The copies that may contribute when stage i (0-based) is analysed, as
\* <<stage, command>> positions: those of the stages after i whose from field
\* is, once resolved, the index string of i.
Eligible(i) ==
    {jc \in ((i + 2)..Len(stages)) \X (1..MaxCmds + 1) :
        /\ jc[2] <= Len(stages[jc[1]].Commands)
        /\ stages[jc[1]].Commands[jc[2]].kind = "copy"
        /\ stages[jc[1]].Commands[jc[2]].From = Itoa(i)}

\* The number of paths the copies at the positions S name.
RECURSIVE NamedCount(_, _)
NamedCount(i, S) ==
    IF S = {} THEN 0
    ELSE LET jc == CHOOSE x \in S : TRUE
         IN Cardinality(NamedPaths(i, jc[1], jc[2])) + NamedCount(i, S \ {jc})

\* C28: dependency soundness. When Dependencies(i, ...) succeeds, every
\* returned path is named by a copy of a stage after i whose from field is
\* the index string of i, and the list holds no more entries than those
\* copies name: no other instruction contributes.
C28_Sound ==
    (dep.pc = "done" /\ ~dep.err) =>
        /\ Range(dep.out) \subseteq
               UNION {NamedPaths(dep.index, jc[1], jc[2]) : jc \in Eligible(dep.index)}
        /\ Len(dep.out) = NamedCount(dep.index, Eligible(dep.index))

\* The analysis of stage 1 has returned "/app" alone: the copy from "1" in
\* stage 1 itself and the copy from "0" in stage 2 gave nothing.
C28_Witness ==
    /\ dep.pc = "done" /\ ~dep.err /\ dep.index = 1
    /\ Len(script) = 3
    /\ script[2].Commands = <<CopyCmd("1", "/app")>>
    /\ script[3].Commands = <<CopyCmd("0", "/bin/*"), CopyCmd("1", "/app")>>
    /\ dep.out = <<"/app">>

\* C29: instruction replay order. When the replay resolves a copy that reads
\* from the stage under analysis, the paths it appends are those the copy
\* names under the base environment of its stage updated by the EnvAssigns
\* before it in that stage, in order, together with the build arguments
\* registered before it; what follows the copy has no part in it.
C29_ReplayOrder ==
    [][(/\ dep.pc = "cmd"
        /\ dep.c <= Len(stages[dep.s].Commands)
        /\ stages[dep.s].Commands[dep.c].kind = "copy"
        /\ stages[dep.s].Commands[dep.c].From = Itoa(dep.index)
        /\ dep'.pc = "cmd") =>
            /\ dep'.c = dep.c + 1
            /\ SubSeq(dep'.deps, 1, Len(dep.deps)) = dep.deps
            /\ Range(SubSeq(dep'.deps, Len(dep.deps) + 1, Len(dep'.deps)))
                  = NamedPaths(dep.index, dep.s, dep.c)
      ]_vars

\* A copy of a stage built on the analysed stage's image has been resolved
\* under that image's OUT, although ENV OUT=/out follows the copy.
C29_Witness ==
    /\ dep.pc = "done" /\ ~dep.err /\ dep.index = 0
    /\ Len(script) = 2
    /\ script[2].BaseName = "a"
    /\ script[2].Commands = <<CopyCmd("a", "$OUT/app"), EnvCmd("OUT", "/out")>>
    /\ dep.out = <<"/img/app">>

\* The value of OUT at command c of stage j when only stage j counts: its
\* base environment and its own EnvAssigns and ArgDeclares before c.
OutAtIsolated(i, j, c) ==
    LET P == {kc \in ReplayedBefore(i, j, c) : kc[1] = j}
        e == LastSet(P, "env", "OUT", SeedEnv(i, j))
    IN IF e # "" THEN e ELSE LastSet(P, "arg", "OUT", EmptyMap)

NamedPathsIsolated(i, j, c) ==
    LET w == script[j].Commands[c].SourcesAndDest[1]
        x == IF w = "$OUT/app" THEN AppUnder[OutAtIsolated(i, j, c)] ELSE w
    IN IF IsWildcard(x) THEN {f \in Range(RootFiles) : Match(x, f)} ELSE {x}

\* C30: stage isolation. Dependencies leaves the caller's build arguments as
\* it received them (none), and the paths a stage contributes are those its
\* copies name under its own base environment and its own EnvAssigns and
\* ArgDeclares.
C30_StageIsolation ==
    dep.pc = "done" =>
        /\ buildArgs = EmptyMap
        /\ ~dep.err =>
              Range(dep.out) = UNION {NamedPathsIsolated(dep.index, jc[1], jc[2]) :
                                        jc \in Eligible(dep.index)}

ResolvedPaths(i, j, c) ==
    LET w == script[j].Commands[c].SourcesAndDest[1]
        x == IF w = "$OUT/app" THEN AppUnder[OutAt(i, j, c)] ELSE w
    IN IF x = "/bin/*" THEN {"/bin/a", "/bin/b"}
       ELSE IF x = "bin/*" THEN {"bin/a", "bin/b"}
       ELSE {x}

RelativePaths == {"app", "bin/a", "bin/b", "out/app"}

\* C32: every path of the list Dependencies builds is absolute. When a copy
\* that reads from the analysed stage is resolved, each of its resolved
\* sources that is relative is appended as the working root joined with it,
\* and each that is absolute is appended as it is.
C32_AbsolutePaths ==
    [][(/\ dep.pc = "cmd"
        /\ dep.c <= Len(stages[dep.s].Commands)
        /\ stages[dep.s].Commands[dep.c].kind = "copy"
        /\ stages[dep.s].Commands[dep.c].From = Itoa(dep.index)
        /\ dep'.pc = "cmd") =>
            /\ \A k \in DOMAIN dep'.deps : dep'.deps[k] \notin RelativePaths
            /\ Range(SubSeq(dep'.deps, Len(dep.deps) + 1, Len(dep'.deps)))
                  = {IF x \in RelativePaths THEN "/" \o x ELSE x :
                        x \in ResolvedPaths(dep.index, dep.s, dep.c)}
      ]_vars

\* The analysis has returned a literal relative source and the matches of a
\* relative wildcard under the root, after an absolute path kept as it was.
C32_Witness ==
    /\ dep.pc = "done" /\ ~dep.err
    /\ dep.out = <<"/out/app", "/app", "/bin/a", "/bin/b">>

(* ================ properties of container runtime detection =========== *)
\* C34: every runtime tag is detectable. An input that returns a tag holds
\* the tag and no earlier tag of the list, so a tag is returned for some
\* input exactly when it is returned for the inputs that hold it and no tag
\* that is not part of it: getContainerRuntime returns each tag of
\* ContainerRuntimes for the tag's own name, bare or inside a cgroup line,
\* and returns not-found for an input of white space only or without a tag.
C34_EveryTagDetectable ==
    rt.pc = "scanned" =>
        rt.result = IF rt.tag = "" THEN RuntimeNotFound ELSE rt.tag

\* C16 as claimed: whatever the detection inputs, GetContainerRuntime returns
\* one of docker, rkt, systemd-nspawn, lxc, lxc-libvirt, openvz, kubernetes,
\* garden, podman, gvisor, firejail, wsl, not-found.
C16_TagInEnumeration ==
    rt.pc = "done" =>
        rt.result \in {"docker", "rkt", "systemd-nspawn", "lxc", "lxc-libvirt",
                       "openvz", "kubernetes", "garden", "podman", "gvisor",
                       "firejail", "wsl", "not-found"}

\* C16 amended: whatever the detection inputs, GetContainerRuntime returns
\* one of docker, rkt, systemd-nspawn, lxc, lxc-libvirt, openvz, kube,
\* garden, podman, gvisor, firejail, wsl, not-found.
C16_TagInEnumerationKube ==
    rt.pc = "done" =>
        rt.result \in {"docker", "rkt", "systemd-nspawn", "lxc", "lxc-libvirt",
                       "openvz", "kube", "garden", "podman", "gvisor",
                       "firejail", "wsl", "not-found"}

\* A call has found the kubernetes runtime in the cgroup file of the process
\* itself, although every other input points elsewhere.
C16_Witness ==
    /\ rt.pc = "done"
    /\ rt.result = RuntimeKubernetes
    /\ rt.pid = 0
    /\ rt.fs["/proc/1/cgroup"] # AbsentFile
    /\ rt.fs["/proc/vz"] # AbsentFile /\ rt.fs["/proc/bc"] = AbsentFile
    /\ rt.env = "podman"

====
